---- MODULE Spec2Model ----
(***************************************************************************)
(* A model of src/huffman.py: the classes Node and HuffmanTree.            *)
(*                                                                         *)
(* Node objects live in an arena: `nodes` maps the identity of every Node  *)
(* of the current tree to its fields, and root / current_node hold such an *)
(* identity or None.  Strings of bits and texts are sequences of           *)
(* one-character strings; a dict is the sequence of its items in insertion *)
(* order (freq_dict) or a function on its keys (code_table).               *)
(*                                                                         *)
(* Every raise of the source is a ValueError; the model names each raise   *)
(* site by the error kind it stands for:                                   *)
(*   lines 39, 71, 141  -> "InvalidInput"                                  *)
(*   line 109           -> "UnknownSymbol"                                 *)
(*   line 144           -> "UninitializedTree"                             *)
(***************************************************************************)
EXTENDS Integers, Sequences, FiniteSets, TLC

\* ------------------------------------------------------------------ bounds

\* Largest count in a frequency mapping handed to build_from_frequencies.
MaxFreq == 2
\* Longest text handed to build_from_text.
MaxText == 3
\* Longest bitstring handed to decode_text.
MaxDecode == 2
\* Most bits fed through single-step decode between two stream starts.
MaxBits == 3
\* The same where every call may follow every other (Spec): the largest count,
\* and the longest text built from, text encoded and bitstring decoded.
LifeFreq == 1
LifeText == 1
LifeEncode == 1
LifeDecode == 1
\* Longest text handed to encode_text on its own (SpecEncode).
MaxEncode == 2

\* The alphabet, in the order in which build_from_frequencies is handed its
\* keys (Node.__lt__ never reads a symbol, so the names carry no order).
SymbolOrder == <<"M", "I", "S", "P">>
Symbols == {SymbolOrder[i] : i \in 1..Len(SymbolOrder)}

\* The values a caller may pass as a bit: '0', '1', and one that is neither.
Bits == {"0", "1"}
BadBit == "2"
BitArgs == Bits \cup {BadBit}

\* --------------------------------------------------------------- class Node

\* Python's None, as a node reference and as a Node's char.
None == 0
NoChar == "None"

\* A tree over n symbols has 2n-1 Nodes.
MaxNodes == 2 * Len(SymbolOrder) - 1

Node(freq, char, left, right) ==
    [freq |-> freq, char |-> char, left |-> left, right |-> right]

is_leaf(n) == n.left = None /\ n.right = None

\* An order that falls back on the identities of two nodes of one frequency.
lt_by_identity(ns, a, b) ==
    ns[a].freq < ns[b].freq \/ (ns[a].freq = ns[b].freq /\ a < b)

\* Node.__lt__ on two nodes of the arena ns.
lt(ns, a, b) == ns[a].freq < ns[b].freq

\* ------------------------------------------------------------------- heapq
\* The list-based binary heap of the standard library, which compares items
\* with < only.  Positions are 0-based as in the library; heap[pos + 1] is
\* the item at position pos.

RECURSIVE siftdown_loop(_, _, _, _, _)
siftdown_loop(ns, heap, startpos, pos, newitem) ==
    IF pos > startpos
    THEN LET parentpos == (pos - 1) \div 2
             parent == heap[parentpos + 1]
         IN  IF lt(ns, newitem, parent)
             THEN siftdown_loop(ns, [heap EXCEPT ![pos + 1] = parent],
                                startpos, parentpos, newitem)
             ELSE [heap EXCEPT ![pos + 1] = newitem]
    ELSE [heap EXCEPT ![pos + 1] = newitem]

siftdown(ns, heap, startpos, pos) ==
    siftdown_loop(ns, heap, startpos, pos, heap[pos + 1])

RECURSIVE siftup_loop(_, _, _, _, _)
siftup_loop(ns, heap, startpos, pos, newitem) ==
    LET endpos == Len(heap)
        childpos == 2 * pos + 1
    IN  IF childpos < endpos
        THEN LET rightpos == childpos + 1
                 smaller == IF rightpos < endpos
                               /\ ~lt(ns, heap[childpos + 1], heap[rightpos + 1])
                            THEN rightpos
                            ELSE childpos
             IN  siftup_loop(ns, [heap EXCEPT ![pos + 1] = heap[smaller + 1]],
                             startpos, smaller, newitem)
        ELSE siftdown(ns, [heap EXCEPT ![pos + 1] = newitem], startpos, pos)

siftup(ns, heap, pos) == siftup_loop(ns, heap, pos, pos, heap[pos + 1])

\* heapify: for i in reversed(range(n // 2)): _siftup(x, i)
RECURSIVE heapify_loop(_, _, _)
heapify_loop(ns, heap, i) ==
    IF i < 0 THEN heap ELSE heapify_loop(ns, siftup(ns, heap, i), i - 1)

heapify(ns, heap) == heapify_loop(ns, heap, (Len(heap) \div 2) - 1)

\* heappop of a non-empty heap: the item returned and the heap left.
heappop(ns, heap) ==
    LET lastelt == heap[Len(heap)]
        rest == SubSeq(heap, 1, Len(heap) - 1)
    IN  IF rest # <<>>
        THEN [item |-> rest[1],
              heap |-> siftup(ns, [rest EXCEPT ![1] = lastelt], 0)]
        ELSE [item |-> lastelt, heap |-> rest]

heappush(ns, heap, item) ==
    siftdown(ns, Append(heap, item), 0, Len(heap))

\* ------------------------------------------------------- class HuffmanTree

\* freq_dict is the sequence of the dict's items, [char, freq], in insertion
\* order; alloc lists the identities the interpreter gives the Nodes of one
\* build, in the order in which they are constructed.

\* Line 49: one leaf per item, in the order of freq_dict.items().
leaf_nodes(freq_dict, alloc) ==
    LET n == Len(freq_dict)
        item(id) == freq_dict[CHOOSE i \in 1..n : alloc[i] = id]
    IN  [id \in {alloc[i] : i \in 1..n} |->
            Node(item(id).freq, item(id).char, None, None)]

\* The merge loop with the node popped first on the right.
RECURSIVE merge_loop_swapped(_, _, _, _)
merge_loop_swapped(ns, priority_queue, alloc, merges) ==
    IF Len(priority_queue) > 1
    THEN LET first == heappop(ns, priority_queue)
             left == first.item
             second == heappop(ns, first.heap)
             right == second.item
             parent == alloc[Cardinality(DOMAIN ns) + 1]
             grown == ns @@ (parent :> Node(ns[left].freq + ns[right].freq,
                                            NoChar, right, left))
         IN  merge_loop_swapped(grown, heappush(grown, second.heap, parent),
                                alloc, merges + 1)
    ELSE [nodes |-> ns, priority_queue |-> priority_queue, merges |-> merges]

\* Lines 52-57: the merge loop; merges counts its iterations.
RECURSIVE merge_loop(_, _, _, _)
merge_loop(ns, priority_queue, alloc, merges) ==
    IF Len(priority_queue) > 1
    THEN LET first == heappop(ns, priority_queue)
             left == first.item
             second == heappop(ns, first.heap)
             right == second.item
             parent == alloc[Cardinality(DOMAIN ns) + 1]
             grown == ns @@ (parent :> Node(ns[left].freq + ns[right].freq,
                                            NoChar, left, right))
         IN  merge_loop(grown, heappush(grown, second.heap, parent), alloc,
                        merges + 1)
    ELSE [nodes |-> ns, priority_queue |-> priority_queue, merges |-> merges]

\* The empty dict, and the arena that holds no Node.
EmptyDict == [c \in {} |-> << >>]
EmptyArena == [id \in {} |-> Node(0, NoChar, None, None)]

\* traverse without the descent into the right branch.
RECURSIVE traverse_left_only(_, _, _)
traverse_left_only(ns, node, code) ==
    IF node = None
    THEN EmptyDict
    ELSE IF is_leaf(ns[node])
         THEN ns[node].char :> (IF code # << >> THEN code ELSE <<"0">>)
         ELSE traverse_left_only(ns, ns[node].left, Append(code, "0"))

\* traverse with the labels of the two branches exchanged.
RECURSIVE traverse_swapped(_, _, _)
traverse_swapped(ns, node, code) ==
    IF node = None
    THEN EmptyDict
    ELSE IF is_leaf(ns[node])
         THEN ns[node].char :> (IF code # << >> THEN code ELSE <<"0">>)
         ELSE traverse_swapped(ns, ns[node].right, Append(code, "0"))
              @@ traverse_swapped(ns, ns[node].left, Append(code, "1"))

\* traverse with the same label on both branches.
RECURSIVE traverse_same_bit(_, _, _)
traverse_same_bit(ns, node, code) ==
    IF node = None
    THEN EmptyDict
    ELSE IF is_leaf(ns[node])
         THEN ns[node].char :> (IF code # << >> THEN code ELSE <<"0">>)
         ELSE traverse_same_bit(ns, ns[node].right, Append(code, "0"))
              @@ traverse_same_bit(ns, ns[node].left, Append(code, "0"))

\* Lines 83-91: traverse, returning the entries it stores; a later store to
\* the same key replaces an earlier one.
RECURSIVE traverse(_, _, _)
traverse(ns, node, code) ==
    IF node = None
    THEN EmptyDict
    ELSE IF is_leaf(ns[node])
         THEN ns[node].char :> (IF code # << >> THEN code ELSE <<"0">>)
         ELSE traverse(ns, ns[node].right, Append(code, "1"))
              @@ traverse(ns, ns[node].left, Append(code, "0"))

\* Lines 79-93.
build_code_table(ns, rt) == traverse(ns, rt, << >>)

\* Lines 41-61, a non-empty freq_dict: the fields of the instance afterwards,
\* the number of merges and the length of priority_queue when the loop ended
\* (0 where there is no queue, lines 41-47).
build_tree(freq_dict, alloc) ==
    IF Len(freq_dict) = 1
    THEN LET char == freq_dict[1].char
             freq == freq_dict[1].freq
         IN  [nodes |-> alloc[1] :> Node(freq, char, None, None),
              root |-> alloc[1],
              code_table |-> char :> <<"0">>,
              current_node |-> alloc[1],
              merges |-> 0,
              queue |-> 0]
    ELSE LET leaves == leaf_nodes(freq_dict, alloc)
             seeded == heapify(leaves, SubSeq(alloc, 1, Len(freq_dict)))
             merged == merge_loop(leaves, seeded, alloc, 0)
         IN  [nodes |-> merged.nodes,
              root |-> merged.priority_queue[1],
              code_table |-> build_code_table(merged.nodes,
                                              merged.priority_queue[1]),
              current_node |-> merged.priority_queue[1],
              merges |-> merged.merges,
              queue |-> Len(merged.priority_queue)]

\* count_chars with a first occurrence that is not counted.
RECURSIVE count_chars_from_zero(_, _)
count_chars_from_zero(freq_dict, text) ==
    IF text = << >>
    THEN freq_dict
    ELSE LET char == Head(text)
             at == {i \in 1..Len(freq_dict) : freq_dict[i].char = char}
         IN  count_chars_from_zero(
                 IF at = {}
                 THEN Append(freq_dict, [char |-> char, freq |-> 0])
                 ELSE [i \in 1..Len(freq_dict) |->
                          IF i \in at
                          THEN [char |-> char, freq |-> freq_dict[i].freq + 1]
                          ELSE freq_dict[i]],
                 Tail(text))

\* Lines 73-75: the counts of a text, keyed in order of first appearance.
RECURSIVE count_chars(_, _)
count_chars(freq_dict, text) ==
    IF text = << >>
    THEN freq_dict
    ELSE LET char == Head(text)
             at == {i \in 1..Len(freq_dict) : freq_dict[i].char = char}
         IN  count_chars(
                 IF at = {}
                 THEN Append(freq_dict, [char |-> char, freq |-> 0 + 1])
                 ELSE [i \in 1..Len(freq_dict) |->
                          IF i \in at
                          THEN [char |-> char, freq |-> freq_dict[i].freq + 1]
                          ELSE freq_dict[i]],
                 Tail(text))

\* Lines 108-111: encode, as the error raised, the char its message names and
\* the value returned.
encode_result(table, char) ==
    IF char \notin DOMAIN table
    THEN [err |-> "UnknownSymbol", out |-> << >>, char |-> char]
    ELSE [err |-> "none", out |-> table[char], char |-> NoChar]

\* Line 123: the join of encode over the text; the first failing encode
\* ends it.
\* encode_text leaving out the chars that encode refuses.
RECURSIVE encode_text_loop_skipping(_, _, _)
encode_text_loop_skipping(table, text, joined) ==
    IF text = << >>
    THEN [err |-> "none", out |-> joined, char |-> NoChar]
    ELSE LET one == encode_result(table, Head(text))
         IN  encode_text_loop_skipping(table, Tail(text), joined \o one.out)

RECURSIVE encode_text_loop(_, _, _)
encode_text_loop(table, text, joined) ==
    IF text = << >>
    THEN [err |-> "none", out |-> joined, char |-> NoChar]
    ELSE LET one == encode_result(table, Head(text))
         IN  IF one.err # "none"
             THEN [err |-> one.err, out |-> << >>, char |-> one.char]
             ELSE encode_text_loop(table, Tail(text), joined \o one.out)

encode_text_result(table, text) == encode_text_loop(table, text, << >>)

\* decode without the return to the root of line 160.
decode_result_sticky(ns, rt, cur, bit) ==
    IF bit \notin Bits
    THEN [err |-> "InvalidInput", ok |-> FALSE, char |-> NoChar,
          current_node |-> cur]
    ELSE IF rt = None
    THEN [err |-> "UninitializedTree", ok |-> FALSE, char |-> NoChar,
          current_node |-> cur]
    ELSE LET start == IF cur = None THEN rt ELSE cur
         IN  IF is_leaf(ns[rt])
             THEN [err |-> "none", ok |-> TRUE, char |-> ns[rt].char,
                   current_node |-> start]
             ELSE LET next == IF bit = "0" THEN ns[start].left
                                           ELSE ns[start].right
                  IN  IF next = None
                      THEN [err |-> "AttributeError", ok |-> FALSE,
                            char |-> NoChar, current_node |-> None]
                      ELSE IF is_leaf(ns[next])
                      THEN [err |-> "none", ok |-> TRUE,
                            char |-> ns[next].char, current_node |-> next]
                      ELSE [err |-> "none", ok |-> FALSE, char |-> NoChar,
                            current_node |-> next]

\* decode taking the right branch on 0 and the left branch on 1.
decode_result_mirrored(ns, rt, cur, bit) ==
    IF bit \notin Bits
    THEN [err |-> "InvalidInput", ok |-> FALSE, char |-> NoChar,
          current_node |-> cur]
    ELSE IF rt = None
    THEN [err |-> "UninitializedTree", ok |-> FALSE, char |-> NoChar,
          current_node |-> cur]
    ELSE LET start == IF cur = None THEN rt ELSE cur
         IN  IF is_leaf(ns[rt])
             THEN [err |-> "none", ok |-> TRUE, char |-> ns[rt].char,
                   current_node |-> start]
             ELSE LET next == IF bit = "0" THEN ns[start].right
                                           ELSE ns[start].left
                  IN  IF next = None
                      THEN [err |-> "AttributeError", ok |-> FALSE,
                            char |-> NoChar, current_node |-> None]
                      ELSE IF is_leaf(ns[next])
                      THEN [err |-> "none", ok |-> TRUE,
                            char |-> ns[next].char, current_node |-> rt]
                      ELSE [err |-> "none", ok |-> FALSE, char |-> NoChar,
                            current_node |-> next]

\* decode without the check of the bit: any other value moves right.
decode_result_unchecked(ns, rt, cur, bit) ==
    IF rt = None
    THEN [err |-> "UninitializedTree", ok |-> FALSE, char |-> NoChar,
          current_node |-> cur]
    ELSE LET start == IF cur = None THEN rt ELSE cur
         IN  IF is_leaf(ns[rt])
             THEN [err |-> "none", ok |-> TRUE, char |-> ns[rt].char,
                   current_node |-> start]
             ELSE LET next == IF bit = "0" THEN ns[start].left
                                           ELSE ns[start].right
                  IN  IF next = None
                      THEN [err |-> "AttributeError", ok |-> FALSE,
                            char |-> NoChar, current_node |-> None]
                      ELSE IF is_leaf(ns[next])
                      THEN [err |-> "none", ok |-> TRUE,
                            char |-> ns[next].char, current_node |-> rt]
                      ELSE [err |-> "none", ok |-> FALSE, char |-> NoChar,
                            current_node |-> next]

\* decode with the check of the root before the check of the bit.
decode_result_root_first(ns, rt, cur, bit) ==
    IF rt = None
    THEN [err |-> "UninitializedTree", ok |-> FALSE, char |-> NoChar,
          current_node |-> cur]
    ELSE IF bit \notin Bits
    THEN [err |-> "InvalidInput", ok |-> FALSE, char |-> NoChar,
          current_node |-> cur]
    ELSE LET start == IF cur = None THEN rt ELSE cur
         IN  IF is_leaf(ns[rt])
             THEN [err |-> "none", ok |-> TRUE, char |-> ns[rt].char,
                   current_node |-> start]
             ELSE LET next == IF bit = "0" THEN ns[start].left
                                           ELSE ns[start].right
                  IN  IF next = None
                      THEN [err |-> "AttributeError", ok |-> FALSE,
                            char |-> NoChar, current_node |-> None]
                      ELSE IF is_leaf(ns[next])
                      THEN [err |-> "none", ok |-> TRUE,
                            char |-> ns[next].char, current_node |-> rt]
                      ELSE [err |-> "none", ok |-> FALSE, char |-> NoChar,
                            current_node |-> next]

\* decode without the case of a root that is a leaf (lines 149-151).
decode_result_no_leaf_root(ns, rt, cur, bit) ==
    IF bit \notin Bits
    THEN [err |-> "InvalidInput", ok |-> FALSE, char |-> NoChar,
          current_node |-> cur]
    ELSE IF rt = None
    THEN [err |-> "UninitializedTree", ok |-> FALSE, char |-> NoChar,
          current_node |-> cur]
    ELSE LET start == IF cur = None THEN rt ELSE cur
             next == IF bit = "0" THEN ns[start].left ELSE ns[start].right
         IN  IF next = None
             THEN [err |-> "AttributeError", ok |-> FALSE,
                   char |-> NoChar, current_node |-> None]
             ELSE IF is_leaf(ns[next])
             THEN [err |-> "none", ok |-> TRUE,
                   char |-> ns[next].char, current_node |-> rt]
             ELSE [err |-> "none", ok |-> FALSE, char |-> NoChar,
                   current_node |-> next]

\* Lines 140-163: decode, as the error raised, the tuple returned and the
\* current_node left behind.  Stepping off a leaf leaves current_node None and
\* fails on line 158 (an AttributeError).
decode_result(ns, rt, cur, bit) ==
    IF bit \notin Bits
    THEN [err |-> "InvalidInput", ok |-> FALSE, char |-> NoChar,
          current_node |-> cur]
    ELSE IF rt = None
    THEN [err |-> "UninitializedTree", ok |-> FALSE, char |-> NoChar,
          current_node |-> cur]
    ELSE LET start == IF cur = None THEN rt ELSE cur
         IN  IF is_leaf(ns[rt])
             THEN [err |-> "none", ok |-> TRUE, char |-> ns[rt].char,
                   current_node |-> start]
             ELSE LET next == IF bit = "0" THEN ns[start].left
                                           ELSE ns[start].right
                  IN  IF next = None
                      THEN [err |-> "AttributeError", ok |-> FALSE,
                            char |-> NoChar, current_node |-> None]
                      ELSE IF is_leaf(ns[next])
                      THEN [err |-> "none", ok |-> TRUE,
                            char |-> ns[next].char, current_node |-> rt]
                      ELSE [err |-> "none", ok |-> FALSE, char |-> NoChar,
                            current_node |-> next]

\* The loop of decode_text, putting the decoder back at the root when a
\* decode raises.
RECURSIVE decode_text_loop_cleanup(_, _, _, _, _, _)
decode_text_loop_cleanup(ns, rt, cur, bitstring, done, result) ==
    IF done = Len(bitstring)
    THEN [err |-> "none", out |-> result, current_node |-> cur,
          done |-> done, result |-> result]
    ELSE LET step == decode_result(ns, rt, cur, bitstring[done + 1])
         IN  IF step.err # "none"
             THEN [err |-> step.err, out |-> << >>, current_node |-> rt,
                   done |-> done, result |-> result]
             ELSE decode_text_loop_cleanup(ns, rt, step.current_node,
                                           bitstring, done + 1,
                                           IF step.ok
                                           THEN Append(result, step.char)
                                           ELSE result)

\* Lines 178-183: the loop of decode_text from current_node cur; done counts
\* the bits consumed and result holds the chars appended so far.
RECURSIVE decode_text_loop(_, _, _, _, _, _)
decode_text_loop(ns, rt, cur, bitstring, done, result) ==
    IF done = Len(bitstring)
    THEN [err |-> "none", out |-> result, current_node |-> cur,
          done |-> done, result |-> result]
    ELSE LET step == decode_result(ns, rt, cur, bitstring[done + 1])
         IN  IF step.err # "none"
             THEN [err |-> step.err, out |-> << >>,
                   current_node |-> step.current_node,
                   done |-> done, result |-> result]
             ELSE decode_text_loop(ns, rt, step.current_node, bitstring,
                                   done + 1,
                                   IF step.ok THEN Append(result, step.char)
                                              ELSE result)

\* decode_text without the reset of line 175.
decode_text_result_no_reset(ns, rt, cur, bitstring) ==
    decode_text_loop(ns, rt, cur, bitstring, 0, << >>)

\* Lines 175-183: decode_text resets the decoder (line 187) and runs the loop.
decode_text_result(ns, rt, cur, bitstring) ==
    decode_text_loop(ns, rt, rt, bitstring, 0, << >>)

\* ------------------------------------------------------------ the arguments

\* The sequences over S of length at most n.
RECURSIVE SeqsUpTo(_, _)
SeqsUpTo(S, n) ==
    IF n = 0
    THEN {<< >>}
    ELSE LET shorter == SeqsUpTo(S, n - 1)
         IN  shorter \cup {Append(s, x) : s \in shorter, x \in S}

\* The frequency mappings with counts 1..n whose keys were inserted in the
\* order keys.
FreqDictsOf(keys, n) ==
    {[i \in 1..Len(keys) |-> [char |-> keys[i], freq |-> f[i]]] :
        f \in [1..Len(keys) -> 1..n]}

\* Every insertion order of every set of keys, and the one that follows
\* SymbolOrder.
KeyOrders ==
    {keys \in SeqsUpTo(Symbols, Len(SymbolOrder)) :
        \A i, j \in 1..Len(keys) : keys[i] = keys[j] => i = j}
OrderedKeys == {SelectSeq(SymbolOrder, LAMBDA c : c \in K) : K \in SUBSET Symbols}

FreqDicts == UNION {FreqDictsOf(keys, MaxFreq) : keys \in KeyOrders}
OrderedDicts == UNION {FreqDictsOf(keys, MaxFreq) : keys \in OrderedKeys}
Texts == SeqsUpTo(Symbols, MaxText)
Bitstrings == SeqsUpTo(BitArgs, MaxDecode)

LifeDicts == UNION {FreqDictsOf(keys, LifeFreq) : keys \in OrderedKeys}
LifeTexts == SeqsUpTo(Symbols, LifeText)
LifeEncodeTexts == SeqsUpTo(Symbols, LifeEncode)
LifeBitstrings == SeqsUpTo(BitArgs, LifeDecode)
EncodeTexts == SeqsUpTo(Symbols, MaxEncode)

\* The text of main (huffman-example.py line 7), and the texts it starts with.
Mississippi == <<"M", "I", "S", "S", "I", "S", "S", "I", "P", "P", "I">>
ExampleTexts == {SubSeq(Mississippi, 1, n) : n \in 1..Len(Mississippi)}

\* The identities the interpreter gives the Nodes of one build, in the order of
\* their construction: it may hand them out in any order, and the model takes
\* the ascending and the descending one, from base.
Ascending(base) == [k \in 1..MaxNodes |-> base + k]
Descending(base) == [k \in 1..MaxNodes |-> base + MaxNodes + 1 - k]

\* build_tree, evaluated once for every freq_dict a build of the
\* specifications can reach line 41 with and every order of identities, and
\* filed by order of identities and by order of keys.
Allocations ==
    {Ascending(0), Ascending(MaxNodes), Descending(0), Descending(MaxNodes)}
keys_of(freq_dict) == [i \in 1..Len(freq_dict) |-> freq_dict[i].char]
BuildArguments ==
    (FreqDicts \cup LifeDicts
        \cup {count_chars(<< >>, text) :
                  text \in Texts \cup LifeTexts \cup ExampleTexts}) \ {<< >>}
built_trees ==
    [alloc \in Allocations |->
        [keys \in KeyOrders \ {<< >>} |->
            [freq_dict \in {d \in BuildArguments : keys_of(d) = keys} |->
                build_tree(freq_dict, alloc)] @@ << >>] @@ << >>] @@ << >>

\* ------------------------------------------------------------ the instance

VARIABLES
    nodes,          \* the Nodes of the tree self.root leads to, by identity
    root,           \* self.root
    code_table,     \* self.code_table
    current_node,   \* self.current_node
    last,           \* the last call: its name, argument, error and result,
                    \* and the current_node it started from
    built,          \* what the tree was last built from, in how many merges,
                    \* and how many nodes the merge loop left in its queue
    fed,            \* the 0/1 bits decode has consumed since the decoder was
                    \* last put at the root by a build, a reset or decode_text
    got,            \* the chars those bits completed
    encoded         \* the local encoded of main (huffman-example.py line 17)

vars == <<nodes, root, code_table, current_node, last, built, fed, got, encoded>>
instance == <<nodes, root, code_table, current_node>>

\* at: where the call found current_node.
Call(op, arg, err, ok, char, out) ==
    [op |-> op, arg |-> arg, err |-> err, ok |-> ok, char |-> char, out |-> out,
     at |-> current_node]

\* Lines 26-29: __init__.
Init ==
    /\ nodes = EmptyArena
    /\ root = None
    /\ code_table = EmptyDict
    /\ current_node = None
    /\ last = Call("__init__", << >>, "none", FALSE, NoChar, << >>)
    /\ built = [freq_dict |-> << >>, text |-> << >>, merges |-> 0, queue |-> 0]
    /\ fed = << >>
    /\ got = << >>
    /\ encoded = << >>

\* A build constructs its Nodes at fresh identities, disjoint from those of
\* the tree the instance still holds while the build runs.
FreshBase == IF root # None /\ root <= MaxNodes THEN MaxNodes ELSE 0
AscendingIds == Ascending(FreshBase)
DescendingIds == Descending(FreshBase)

\* A build without the assignments to current_node of lines 46 and 60.
install_stale_cursor(op, freq_dict, text, alloc) ==
    LET tree == built_trees[alloc][keys_of(freq_dict)][freq_dict]
    IN  /\ nodes' = tree.nodes
        /\ root' = tree.root
        /\ code_table' = tree.code_table
        /\ last' = Call(op, << >>, "none", FALSE, NoChar, << >>)
        /\ built' = [freq_dict |-> IF text = << >> THEN freq_dict ELSE << >>,
                     text |-> text, merges |-> tree.merges,
                     queue |-> tree.queue]
        /\ fed' = << >>
        /\ got' = << >>
        /\ UNCHANGED <<current_node, encoded>>

\* A build without the call of _build_code_table of line 61.
install_stale_table(op, freq_dict, text, alloc) ==
    LET tree == built_trees[alloc][keys_of(freq_dict)][freq_dict]
    IN  /\ nodes' = tree.nodes
        /\ root' = tree.root
        /\ code_table' = IF Len(freq_dict) = 1 THEN tree.code_table
                                                ELSE code_table
        /\ current_node' = tree.current_node
        /\ last' = Call(op, << >>, "none", FALSE, NoChar, << >>)
        /\ built' = [freq_dict |-> IF text = << >> THEN freq_dict ELSE << >>,
                     text |-> text, merges |-> tree.merges,
                     queue |-> tree.queue]
        /\ fed' = << >>
        /\ got' = << >>
        /\ UNCHANGED encoded

\* Lines 41-61: the assignments of a build that got past its checks.
install(op, freq_dict, text, alloc) ==
    LET tree == built_trees[alloc][keys_of(freq_dict)][freq_dict]
    IN  /\ nodes' = tree.nodes
        /\ root' = tree.root
        /\ code_table' = tree.code_table
        /\ current_node' = tree.current_node
        /\ last' = Call(op, << >>, "none", FALSE, NoChar, << >>)
        /\ built' = [freq_dict |-> IF text = << >> THEN freq_dict ELSE << >>,
                     text |-> text, merges |-> tree.merges,
                     queue |-> tree.queue]
        /\ fed' = << >>
        /\ got' = << >>
        /\ UNCHANGED encoded

\* A call that raises: nothing is assigned.
raise(op, arg, err) ==
    /\ last' = Call(op, arg, err, FALSE, NoChar, << >>)
    /\ UNCHANGED <<nodes, root, code_table, current_node, built, fed, got,
                   encoded>>

\* Lines 31-61.
BuildFromFrequencies(freq_dict, alloc) ==
    IF freq_dict = << >>
    THEN raise("build_from_frequencies", << >>, "InvalidInput")
    ELSE install("build_from_frequencies", freq_dict, << >>, alloc)

\* Lines 63-77.
BuildFromText(text, alloc) ==
    IF text = << >>
    THEN raise("build_from_text", << >>, "InvalidInput")
    ELSE install("build_from_text", count_chars(<< >>, text), text, alloc)

\* encode putting the decoder back at the root.
Encode_resetting(char) ==
    LET r == encode_result(code_table, char)
    IN  /\ last' = Call("encode", <<char>>, r.err, FALSE, r.char, r.out)
        /\ current_node' = root
        /\ UNCHANGED <<nodes, root, code_table, built, fed, got, encoded>>

\* Lines 95-111.
Encode(char) ==
    LET r == encode_result(code_table, char)
    IN  /\ last' = Call("encode", <<char>>, r.err, FALSE, r.char, r.out)
        /\ UNCHANGED <<nodes, root, code_table, current_node, built, fed, got,
                       encoded>>

\* Lines 113-123.
encode_text_call(text) ==
    LET r == encode_text_result(code_table, text)
    IN  /\ last' = Call("encode_text", text, r.err, FALSE, r.char, r.out)
        /\ UNCHANGED <<nodes, root, code_table, current_node, built, fed, got>>

EncodeText(text) == encode_text_call(text) /\ UNCHANGED encoded

\* Lines 125-163.  stream: whether the call is recorded in fed and got.
Decode(bit, stream) ==
    LET r == decode_result(nodes, root, current_node, bit)
    IN  /\ current_node' = r.current_node
        /\ last' = Call("decode", <<bit>>, r.err, r.ok, r.char, << >>)
        /\ fed' = IF stream /\ r.err = "none" THEN Append(fed, bit) ELSE fed
        /\ got' = IF stream /\ r.ok THEN Append(got, r.char) ELSE got
        /\ UNCHANGED <<nodes, root, code_table, built, encoded>>

\* Lines 165-183.
DecodeText(bitstring, stream) ==
    LET r == decode_text_result(nodes, root, current_node, bitstring)
    IN  /\ current_node' = r.current_node
        /\ last' = Call("decode_text", bitstring, r.err, FALSE, NoChar, r.out)
        /\ fed' = IF stream THEN SubSeq(bitstring, 1, r.done) ELSE << >>
        /\ got' = IF stream THEN r.result ELSE << >>
        /\ UNCHANGED <<nodes, root, code_table, built, encoded>>

\* reset_decoder without the assignment of line 187.
ResetDecoder_unassigned ==
    /\ last' = Call("reset_decoder", << >>, "none", FALSE, NoChar, << >>)
    /\ fed' = << >>
    /\ got' = << >>
    /\ UNCHANGED <<nodes, root, code_table, current_node, built, encoded>>

\* Lines 185-187.
ResetDecoder ==
    /\ current_node' = root
    /\ last' = Call("reset_decoder", << >>, "none", FALSE, NoChar, << >>)
    /\ fed' = << >>
    /\ got' = << >>
    /\ UNCHANGED <<nodes, root, code_table, built, encoded>>

\* --------------------------------------------------------- specifications

\* The builds alone: a first build from every argument, a failing build, and
\* a second build from the argument of the first, under both orders of
\* identities.
NextBuild ==
    \/ /\ root = None
       /\ \E freq_dict \in FreqDicts \ {<< >>}, alloc \in {AscendingIds, DescendingIds} :
              BuildFromFrequencies(freq_dict, alloc)
    \/ /\ root = None
       /\ \E text \in Texts \ {<< >>}, alloc \in {AscendingIds, DescendingIds} :
              BuildFromText(text, alloc)
    \/ BuildFromFrequencies(<< >>, AscendingIds)
    \/ BuildFromText(<< >>, AscendingIds)
    \/ /\ built.freq_dict # << >>
       /\ \E alloc \in {AscendingIds, DescendingIds} :
              BuildFromFrequencies(built.freq_dict, alloc)
    \/ /\ built.text # << >>
       /\ \E alloc \in {AscendingIds, DescendingIds} :
              BuildFromText(built.text, alloc)

SpecBuild == Init /\ [][NextBuild]_vars

\* One tree and the decoder calls on it, recorded in fed and got.
NextStream ==
    \/ \E freq_dict \in OrderedDicts :
           root = None /\ BuildFromFrequencies(freq_dict, AscendingIds)
    \/ \E bit \in BitArgs : Len(fed) < MaxBits /\ Decode(bit, TRUE)
    \/ \E bitstring \in Bitstrings : DecodeText(bitstring, TRUE)
    \/ ResetDecoder

SpecStream == Init /\ [][NextStream]_vars

\* A text, its tree, the encoding of the text by encode_text and the decoding
\* of that encoding by decode_text, with decode calls in between that leave
\* the decoder anywhere.
NextRoundTrip ==
    \/ \E text \in Texts \ {<< >>} :
           root = None /\ BuildFromText(text, AscendingIds)
    \/ \E bit \in Bits :
           root # None /\ last.op # "decode_text" /\ Decode(bit, FALSE)
    \/ root # None /\ last.op # "decode_text" /\ EncodeText(built.text)
    \/ last.op = "encode_text" /\ last.err = "none" /\ DecodeText(last.out, FALSE)

SpecRoundTrip == Init /\ [][NextRoundTrip]_vars

\* A tree, decode calls that leave the decoder anywhere, and encode_text.
NextEncode ==
    \/ \E freq_dict \in LifeDicts \ {<< >>} :
           root = None /\ BuildFromFrequencies(freq_dict, AscendingIds)
    \/ \E bit \in Bits : root # None /\ Decode(bit, FALSE)
    \/ \E text \in EncodeTexts : EncodeText(text)

SpecEncode == Init /\ [][NextEncode]_vars

\* main of huffman-example.py, on its text and on the texts it starts with.
\* Line 17: encoded = tree.encode_text(text).
ExampleEncode ==
    /\ last.op = "build_from_text"
    /\ encode_text_call(built.text)
    /\ encoded' = last'.out

\* Lines 23-25: encode of each char of the text, in the order of a set; the
\* call seen last is that of any of them.
ExampleEncodeEach ==
    /\ last.op = "encode_text"
    /\ \E char \in {built.text[i] : i \in 1..Len(built.text)} : Encode(char)

\* Line 29.
ExampleReset == last.op = "encode" /\ ResetDecoder

\* Lines 31-37: one turn of the loop over the bits of encoded.
ExampleDecode ==
    /\ last.op \in {"reset_decoder", "decode"}
    /\ Len(fed) < Len(encoded)
    /\ Decode(encoded[Len(fed) + 1], TRUE)

NextExample ==
    \/ \E text \in ExampleTexts :
           root = None /\ BuildFromText(text, AscendingIds)
    \/ ExampleEncode
    \/ ExampleEncodeEach
    \/ ExampleReset
    \/ ExampleDecode

SpecExample == Init /\ [][NextExample]_vars

\* Every call, in any order.
Next ==
    \/ \E freq_dict \in LifeDicts : BuildFromFrequencies(freq_dict, AscendingIds)
    \/ \E text \in LifeTexts : BuildFromText(text, AscendingIds)
    \/ \E char \in Symbols : Encode(char)
    \/ \E text \in LifeEncodeTexts : EncodeText(text)
    \/ \E bit \in BitArgs : Decode(bit, FALSE)
    \/ \E bitstring \in LifeBitstrings : DecodeText(bitstring, FALSE)
    \/ ResetDecoder

Spec == Init /\ [][Next]_vars

\* --------------------------------------------------------------- properties

\* The chars of a sequence.
Range(seq) == {seq[i] : i \in 1..Len(seq)}

IsPrefix(a, b) == Len(a) <= Len(b) /\ SubSeq(b, 1, Len(a)) = a

\* C1: the encoding of a non-empty text with the tree built from that text
\* decodes back to exactly that text, wherever the decoder stood before.
RoundTrip ==
    last.op = "decode_text" =>
        /\ last.arg = encode_text_result(code_table, built.text).out
        /\ last.err = "none"
        /\ last.out = built.text

\* A text of three chars, two of them distinct, has come back from a decoder
\* that stood in the middle of a symbol.
RoundTripDone ==
    /\ last.op = "decode_text"
    /\ Len(built.text) = 3
    /\ Cardinality(Range(built.text)) >= 2
    /\ last.at # root
    /\ last.out = built.text

\* C2: the chars completed by feeding bits one at a time to decode are the
\* chars decode_text returns for the sequence of those bits.
IncrementalDecode ==
    root # None =>
        LET whole == decode_text_result(nodes, root, current_node, fed)
        IN  /\ whole.err = "none"
            /\ got = whole.out

\* Three bits fed one at a time have completed two symbols of a tree of
\* three or more symbols.
IncrementalDecodeDone ==
    /\ last.op = "decode"
    /\ Len(fed) = 3
    /\ Len(got) = 2
    /\ Cardinality(DOMAIN code_table) >= 3
    /\ current_node = root

\* Where the bits lead from node n of the tree: down one branch for each bit,
\* and from a leaf back to the root.
RECURSIVE Walk(_, _)
Walk(n, bits) ==
    IF bits = << >> \/ is_leaf(nodes[root])
    THEN n
    ELSE LET child == IF Head(bits) = "0" THEN nodes[n].left ELSE nodes[n].right
         IN  Walk(IF is_leaf(nodes[child]) THEN root ELSE child, Tail(bits))

\* The bits of a bitstring before its first value other than 0 and 1.
BeforeBadBit(bitstring) ==
    LET k == CHOOSE k \in 1..Len(bitstring) :
                 /\ bitstring[k] \notin Bits
                 /\ \A j \in 1..(k - 1) : bitstring[j] \in Bits
    IN  SubSeq(bitstring, 1, k - 1)

\* C3: decode of a bit other than 0 and 1 fails with InvalidInput and leaves
\* the tree, the code table and the cursor as they were, and the decode of a
\* valid bit that follows the failed call gives what it would have given had
\* the failed call not been made.
InvalidBit ==
    [][/\ (last'.op = "decode" /\ last'.arg[1] \notin Bits) =>
              /\ last'.err = "InvalidInput"
              /\ UNCHANGED <<nodes, root, code_table, current_node>>
       /\ ( /\ last.op = "decode" /\ last.err = "InvalidInput"
            /\ last'.op = "decode" /\ last'.arg[1] \in Bits ) =>
              LET clean == decode_result(nodes, root, last.at, last'.arg[1])
              IN  /\ last'.err = clean.err
                  /\ last'.ok = clean.ok
                  /\ last'.char = clean.char
                  /\ current_node' = clean.current_node]_vars

\* decode has refused a bit in the middle of a symbol.
InvalidBitRefused ==
    /\ last.op = "decode"
    /\ last.err = "InvalidInput"
    /\ root # None
    /\ current_node # root
    /\ fed # << >>

\* C4, as stated: a decode_text that aborts on a malformed bit leaves the tree,
\* the code table and the cursor exactly as they were before the call.
DecodeTextAbortFrame ==
    [][(last'.op = "decode_text" /\ last'.err = "InvalidInput") =>
           UNCHANGED <<nodes, root, code_table, current_node>>]_vars

\* C4: a decode_text that aborts on a malformed bit leaves the tree and the
\* code table as they were, and the cursor where the bits before the malformed
\* one lead from the root, wherever the cursor was before the call; every
\* other failing build, decode or decode_text leaves the tree, the code table
\* and the cursor as they were.
DecodeTextAbort ==
    [][/\ (last'.op = "decode_text" /\ last'.err = "InvalidInput") =>
              /\ UNCHANGED <<nodes, root, code_table>>
              /\ current_node' = IF root = None
                                  THEN None
                                  ELSE Walk(root, BeforeBadBit(last'.arg))
       /\ ( /\ last'.err # "none"
            /\ ~(last'.op = "decode_text" /\ last'.err = "InvalidInput") ) =>
              UNCHANGED <<nodes, root, code_table, current_node>>]_vars

\* decode_text has aborted on its second bit and left the cursor below the
\* root, having found it at the root.
DecodeTextAborted ==
    /\ last.op = "decode_text"
    /\ last.err = "InvalidInput"
    /\ root # None
    /\ last.at = root
    /\ current_node # root

EncodeDecodeOps == {"encode", "encode_text", "decode", "decode_text"}

\* C5, as stated: before a tree has been built, every encode, encode_text,
\* decode and decode_text call fails with UninitializedTree.
UninitializedAlways ==
    (root = None /\ last.op \in EncodeDecodeOps) => last.err = "UninitializedTree"

\* C5: before a tree has been built the instance stays as constructed and no
\* call returns a symbol or a bit; decode of a bit 0 or 1 and decode_text of
\* a bitstring that starts with one fail with UninitializedTree, a bit or
\* first bit of another value fails with InvalidInput, encode and encode_text
\* of a non-empty text fail with UnknownSymbol, and encode_text and
\* decode_text of the empty sequence succeed with the empty sequence.
BeforeBuild ==
    root = None =>
        /\ nodes = EmptyArena /\ code_table = EmptyDict /\ current_node = None
        /\ last.op \in EncodeDecodeOps => (~last.ok /\ last.out = << >>)
        /\ last.op = "decode" =>
               last.err = IF last.arg[1] \in Bits THEN "UninitializedTree"
                                                  ELSE "InvalidInput"
        /\ (last.op = "decode_text" /\ last.arg # << >>) =>
               last.err = IF last.arg[1] \in Bits THEN "UninitializedTree"
                                                  ELSE "InvalidInput"
        /\ last.op = "encode" => last.err = "UnknownSymbol"
        /\ (last.op = "encode_text" /\ last.arg # << >>) =>
               last.err = "UnknownSymbol"
        /\ (last.op \in {"encode_text", "decode_text"} /\ last.arg = << >>) =>
               last.err = "none"

\* decode_text of a bitstring of valid bits has failed before any build.
BeforeBuildRefused ==
    /\ root = None
    /\ last.op = "decode_text"
    /\ last.arg # << >>
    /\ last.err = "UninitializedTree"

\* What the tree was built from: its symbols, their counts and the total.
InputSymbols ==
    IF built.text # << >>
    THEN Range(built.text)
    ELSE {built.freq_dict[i].char : i \in 1..Len(built.freq_dict)}

InputCount(char) ==
    IF built.text # << >>
    THEN Cardinality({i \in 1..Len(built.text) : built.text[i] = char})
    ELSE built.freq_dict[CHOOSE i \in 1..Len(built.freq_dict) :
                             built.freq_dict[i].char = char].freq

RECURSIVE SumOfCounts(_)
SumOfCounts(chars) ==
    IF chars = {}
    THEN 0
    ELSE LET char == CHOOSE c \in chars : TRUE
         IN  InputCount(char) + SumOfCounts(chars \ {char})

\* C6: in the code table of a tree built from two or more symbols no code is
\* a prefix of the code of another symbol.
PrefixFree ==
    Cardinality(InputSymbols) >= 2 =>
        \A a, b \in DOMAIN code_table :
            a # b => ~IsPrefix(code_table[a], code_table[b])

\* A tree of three symbols with codes of one and of two bits.
PrefixFreeBuilt ==
    /\ Cardinality(InputSymbols) = 3
    /\ DOMAIN code_table = InputSymbols
    /\ {Len(code_table[c]) : c \in DOMAIN code_table} = {1, 2}

\* C7: a tree built from one symbol is a single leaf with the code "0" for
\* that symbol; decode of either valid bit returns the symbol and leaves the
\* cursor at the root, and decode_text of n valid bits returns n copies.
SingleSymbol ==
    Cardinality(InputSymbols) = 1 =>
        LET sym == CHOOSE c \in InputSymbols : TRUE
        IN  /\ DOMAIN nodes = {root}
            /\ is_leaf(nodes[root])
            /\ nodes[root].char = sym
            /\ code_table = (sym :> <<"0">>)
            /\ current_node = root
            /\ (last.op = "decode" /\ last.arg[1] \in Bits) =>
                   (last.err = "none" /\ last.ok /\ last.char = sym)
            /\ (last.op = "decode_text" /\ Range(last.arg) \subseteq Bits) =>
                   /\ last.err = "none"
                   /\ last.out = [i \in 1..Len(last.arg) |-> sym]

\* decode_text of the two bits 1 and 0 has returned two copies of the symbol.
SingleSymbolDecoded ==
    /\ Cardinality(InputSymbols) = 1
    /\ last.op = "decode_text"
    /\ last.arg = <<"1", "0">>
    /\ Len(last.out) = 2

\* C8: the freq of every internal node is the sum of the freqs of its two
\* children, the freq of every leaf is the count its symbol came in with, and
\* the freq of the root is the sum of all the counts.
FrequencyConservation ==
    root # None =>
        /\ \A n \in DOMAIN nodes :
               IF is_leaf(nodes[n])
               THEN /\ nodes[n].char \in InputSymbols
                    /\ nodes[n].freq = InputCount(nodes[n].char)
               ELSE nodes[n].freq = nodes[nodes[n].left].freq
                                    + nodes[nodes[n].right].freq
        /\ nodes[root].freq = SumOfCounts(InputSymbols)

\* A tree built from a text of three chars, one of them twice.
FrequencyConservationBuilt ==
    /\ last.op = "build_from_text"
    /\ Len(built.text) = 3
    /\ Cardinality(InputSymbols) = 2
    /\ nodes[root].freq = 3
    /\ ~is_leaf(nodes[root])

\* The tree below node n without the identities of its nodes.
RECURSIVE Shape(_, _)
Shape(ns, n) ==
    IF n = None
    THEN << >>
    ELSE [freq |-> ns[n].freq, char |-> ns[n].char,
          left |-> Shape(ns, ns[n].left), right |-> Shape(ns, ns[n].right)]

BuildOps == {"build_from_frequencies", "build_from_text"}

\* C9: a build from the argument of the build before it, whatever the
\* identities of the nodes of the two builds, gives the same tree shape and
\* the same code table.
Deterministic ==
    [][( /\ root # None
         /\ last'.op \in BuildOps /\ last'.err = "none"
         /\ built'.freq_dict = built.freq_dict
         /\ built'.text = built.text ) =>
           /\ Shape(nodes', root') = Shape(nodes, root)
           /\ code_table' = code_table]_vars

\* A second tree, of three or more symbols with two equal counts among them,
\* whose nodes have their identities in descending order.
DeterministicRebuilt ==
    /\ root > MaxNodes
    /\ Len(built.freq_dict) >= 3
    /\ \E i, j \in 1..Len(built.freq_dict) :
           i # j /\ built.freq_dict[i].freq = built.freq_dict[j].freq
    /\ \A n \in DOMAIN nodes : n >= root

\* C10: reset_decoder never fails, puts the cursor at the root and leaves the
\* tree and the code table as they were, in any state; the decode that
\* follows it gives what it gives from the root.
Reset ==
    [][/\ last'.op = "reset_decoder" =>
              /\ last'.err = "none"
              /\ current_node' = root
              /\ UNCHANGED <<nodes, root, code_table>>
       /\ (last.op = "reset_decoder" /\ last'.op = "decode") =>
              LET fresh == decode_result(nodes, root, root, last'.arg[1])
              IN  /\ last'.err = fresh.err
                  /\ last'.ok = fresh.ok
                  /\ last'.char = fresh.char
                  /\ current_node' = fresh.current_node]_vars

\* reset_decoder has been called in the middle of a symbol.
ResetDone ==
    /\ last.op = "reset_decoder"
    /\ root # None
    /\ last.at \notin {root, None}
    /\ current_node = root

\* The codes of the chars of a text, one after the other.
RECURSIVE Concatenation(_)
Concatenation(text) ==
    IF text = << >>
    THEN << >>
    ELSE code_table[Head(text)] \o Concatenation(Tail(text))

\* The first char of a text that has no code.
FirstUnknown(text) ==
    text[CHOOSE k \in 1..Len(text) :
             /\ text[k] \notin DOMAIN code_table
             /\ \A j \in 1..(k - 1) : text[j] \in DOMAIN code_table]

\* C11: encode_text of a text with a char that has no code fails with
\* UnknownSymbol, naming the first such char, and returns nothing; of a text
\* of chars with codes it returns their codes one after the other in the
\* order of the text; either way the tree, the code table and the cursor stay
\* as they were.
EncodeTextContract ==
    [][last'.op = "encode_text" =>
           /\ UNCHANGED <<nodes, root, code_table, current_node>>
           /\ IF Range(last'.arg) \subseteq DOMAIN code_table
              THEN /\ last'.err = "none"
                   /\ last'.out = Concatenation(last'.arg)
              ELSE /\ last'.err = "UnknownSymbol"
                   /\ last'.char = FirstUnknown(last'.arg)
                   /\ last'.out = << >>]_vars

\* encode_text has failed on the second char of a text, on a tree whose
\* decoder is in the middle of a symbol.
EncodeTextRefused ==
    /\ last.op = "encode_text"
    /\ last.err = "UnknownSymbol"
    /\ Len(last.arg) = 2
    /\ last.arg[1] \in DOMAIN code_table
    /\ last.char = last.arg[2]
    /\ root # None
    /\ current_node # root

\* C12: on the tree built from "MISSISSIPPI" the leaves carry M:1, I:4, S:4
\* and P:2, encode_text of the text returns at most 44 bits, and decode of
\* those bits one at a time gives back exactly the text.
MississippiExample ==
    built.text = Mississippi =>
        /\ {<<nodes[n].char, nodes[n].freq>> :
                n \in {m \in DOMAIN nodes : is_leaf(nodes[m])}}
               = {<<"M", 1>>, <<"I", 4>>, <<"S", 4>>, <<"P", 2>>}
        /\ last.op = "encode_text" =>
               /\ last.err = "none"
               /\ encoded = last.out
               /\ Len(encoded) >= 1
               /\ Len(encoded) <= 44
        /\ last.op = "decode" =>
               /\ last.err = "none"
               /\ Len(got) <= Len(Mississippi)
               /\ got = SubSeq(Mississippi, 1, Len(got))
               /\ Len(fed) = Len(encoded) => got = Mississippi

\* The last of the bits of the encoding of "MISSISSIPPI" has been decoded.
MississippiDecoded ==
    /\ built.text = Mississippi
    /\ last.op = "decode"
    /\ encoded # << >>
    /\ fed = encoded
    /\ got = Mississippi

\* The number of bits in the codes of a sequence of chars.
RECURSIVE CodeBits(_)
CodeBits(chars) ==
    IF chars = << >>
    THEN 0
    ELSE Len(code_table[Head(chars)]) + CodeBits(Tail(chars))

\* The bits consumed since the last completed symbol or the last reset.
Pending == SubSeq(fed, CodeBits(got) + 1, Len(fed))

\* C13: on a tree of two or more symbols a decode of a bit 0 or 1 consumes
\* that one bit and follows the left branch on 0 and the right branch on 1;
\* it returns (True, s) exactly when the bits consumed since the last
\* completion or reset spell the code of s, with the cursor back at the root,
\* and otherwise (False, None) with the cursor on the internal node reached.
DecodeStep ==
    [][( /\ last'.op = "decode" /\ last'.arg[1] \in Bits
         /\ root # None /\ ~is_leaf(nodes[root]) ) =>
           LET bit == last'.arg[1]
               child == IF bit = "0" THEN nodes[current_node].left
                                     ELSE nodes[current_node].right
               spelled == Append(Pending, bit)
               spelt == {s \in DOMAIN code_table : code_table[s] = spelled}
           IN  /\ last'.err = "none"
               /\ fed' = Append(fed, bit)
               /\ UNCHANGED <<nodes, root, code_table>>
               /\ IF spelt # {}
                  THEN /\ last'.ok
                       /\ spelt = {last'.char}
                       /\ is_leaf(nodes[child]) /\ nodes[child].char = last'.char
                       /\ current_node' = root
                       /\ got' = Append(got, last'.char)
                  ELSE /\ ~last'.ok
                       /\ last'.char = NoChar
                       /\ ~is_leaf(nodes[child])
                       /\ current_node' = child
                       /\ got' = got]_vars

\* The third bit fed has completed a second symbol, one with a code of two
\* bits.
DecodeStepCompleted ==
    /\ last.op = "decode"
    /\ last.ok
    /\ Len(fed) = 3
    /\ Len(got) = 2
    /\ Len(code_table[last.char]) = 2
    /\ last.at # root

\* The nodes of the tree below node n.
RECURSIVE TreeNodes(_, _)
TreeNodes(ns, n) ==
    IF n = None
    THEN {}
    ELSE {n} \cup TreeNodes(ns, ns[n].left) \cup TreeNodes(ns, ns[n].right)

\* C14: once a tree is built the cursor is, between any two calls, never None
\* and always a node of the current tree; in a tree of two or more symbols it
\* is the root or another internal node, never a leaf, and no decode steps
\* from a node without children.
CursorInvariant ==
    root # None =>
        /\ current_node # None
        /\ current_node \in TreeNodes(nodes, root)
        /\ ~is_leaf(nodes[root]) => ~is_leaf(nodes[current_node])
        /\ last.err # "AttributeError"

\* On a second tree, a decode has failed with the cursor below the root.
CursorBelowRoot ==
    /\ root > MaxNodes
    /\ last.op = "decode"
    /\ last.err = "InvalidInput"
    /\ current_node # root
    /\ ~is_leaf(nodes[current_node])

\* The chars of the leaves that the bits reach one after the other, walking
\* from node n of the tree and starting again at the root after each leaf.
RECURSIVE Spell(_, _)
Spell(n, bits) ==
    IF bits = << >>
    THEN << >>
    ELSE IF is_leaf(nodes[root])
    THEN <<nodes[root].char>> \o Spell(n, Tail(bits))
    ELSE LET child == IF Head(bits) = "0" THEN nodes[n].left ELSE nodes[n].right
         IN  IF is_leaf(nodes[child])
             THEN <<nodes[child].char>> \o Spell(root, Tail(bits))
             ELSE Spell(child, Tail(bits))

\* C15: decode_text of a bitstring of bits 0 and 1 returns the chars the bits
\* spell from the root and leaves the cursor where they lead from the root,
\* wherever single-step decode calls had left the cursor: what they had
\* consumed of a symbol is dropped.
DecodeTextFromRoot ==
    [][( /\ last'.op = "decode_text" /\ root # None
         /\ \A i \in 1..Len(last'.arg) : last'.arg[i] \in Bits ) =>
           /\ last'.err = "none"
           /\ last'.out = Spell(root, last'.arg)
           /\ current_node' = Walk(root, last'.arg)
           /\ UNCHANGED <<nodes, root, code_table>>]_vars

\* decode_text has returned a symbol for one bit, called with the cursor
\* below the root, from where that bit does not complete the same symbol.
DecodeTextRestarted ==
    /\ last.op = "decode_text"
    /\ last.err = "none"
    /\ root # None
    /\ last.at \notin {root, None}
    /\ Len(last.arg) = 1
    /\ Len(last.out) = 1
    /\ decode_result(nodes, root, last.at, last.arg[1]).char # last.out[1]

\* The pairs of a char and the bits that lead to its leaf from node n, with
\* 0 for a left branch and 1 for a right branch, after the bits of code.
RECURSIVE Paths(_, _, _)
Paths(ns, n, code) ==
    IF n = None
    THEN {}
    ELSE IF is_leaf(ns[n])
    THEN {<<ns[n].char, code>>}
    ELSE Paths(ns, ns[n].left, Append(code, "0"))
         \cup Paths(ns, ns[n].right, Append(code, "1"))

\* The table is that of the tree: one code for each leaf, the bits that lead
\* to it, or "0" for a leaf that is the root.
TableOfTree(ns, rt, table) ==
    LET paths == Paths(ns, rt, << >>)
    IN  /\ DOMAIN table = {p[1] : p \in paths}
        /\ \A p \in paths :
               table[p[1]] = IF p[2] = << >> THEN <<"0">> ELSE p[2]

\* C16: in every state the code table is the table of the current tree and
\* the cursor is None or a node of that tree; a build that succeeds, on a
\* fresh or on a built instance, puts in place a new tree, its table and the
\* cursor at its root, and a build that fails changes none of them.
RebuildConsistent ==
    /\ [](/\ TableOfTree(nodes, root, code_table)
          /\ current_node \in TreeNodes(nodes, root) \cup {None})
    /\ [][/\ (last'.op \in BuildOps /\ last'.err = "none") =>
                 /\ root' \notin DOMAIN nodes \cup {None}
                 /\ DOMAIN nodes' = TreeNodes(nodes', root')
                 /\ current_node' = root'
          /\ (last'.op \in BuildOps /\ last'.err # "none") =>
                 /\ last'.err = "InvalidInput"
                 /\ UNCHANGED <<nodes, root, code_table, current_node>>]_vars

\* A second build has succeeded on an instance whose cursor was below the
\* root of the first tree (the roots have odd identities there).
RebuiltBelowRoot ==
    /\ last.op \in BuildOps
    /\ last.err = "none"
    /\ root > MaxNodes
    /\ last.at \in 1..MaxNodes
    /\ last.at % 2 = 0
    /\ current_node = root

EncodeOps == {"encode", "encode_text"}

\* C17: encode and encode_text, failing or not, leave the tree, the code
\* table and the cursor as they were, and the decode that follows them gives
\* what it gives from the cursor they found, also in the middle of a symbol.
EncodeFrame ==
    [][/\ last'.op \in EncodeOps =>
              UNCHANGED <<nodes, root, code_table, current_node>>
       /\ (last.op \in EncodeOps /\ last'.op = "decode") =>
              LET clean == decode_result(nodes, root, last.at, last'.arg[1])
              IN  /\ last'.err = clean.err
                  /\ last'.ok = clean.ok
                  /\ last'.char = clean.char
                  /\ current_node' = clean.current_node]_vars

\* encode has failed in the middle of a symbol.
EncodeRefusedMidSymbol ==
    /\ last.op = "encode"
    /\ last.err = "UnknownSymbol"
    /\ root # None
    /\ current_node # root

Leaves == {n \in DOMAIN nodes : is_leaf(nodes[n])}
Internals == DOMAIN nodes \ Leaves

\* C18: a build from n >= 2 symbols ends its loop after n - 1 merges with one
\* node in the queue, the root; the tree has n leaves, one for each symbol,
\* and n - 1 internal nodes, each with a left and a right child, the left
\* one popped first and so of no greater freq than the right one.
MergeCount ==
    Cardinality(InputSymbols) >= 2 =>
        LET n == Cardinality(InputSymbols)
        IN  /\ built.merges = n - 1
            /\ built.queue = 1
            /\ DOMAIN nodes = TreeNodes(nodes, root)
            /\ Cardinality(Leaves) = n
            /\ {nodes[m].char : m \in Leaves} = InputSymbols
            /\ Cardinality(Internals) = n - 1
            /\ \A m \in Internals :
                   /\ nodes[m].left # None
                   /\ nodes[m].right # None
                   /\ nodes[m].left # nodes[m].right
                   /\ nodes[nodes[m].left].freq <= nodes[nodes[m].right].freq

\* A tree of four symbols built in three merges, with an internal node whose
\* children differ in freq.
MergeCountBuilt ==
    /\ Cardinality(InputSymbols) = 4
    /\ built.merges = 3
    /\ \E m \in Internals :
           nodes[nodes[m].left].freq < nodes[nodes[m].right].freq

\* C19: after a build that succeeded the keys of the code table are the
\* symbols the tree was built from, and every code is a non-empty sequence of
\* the digits 0 and 1; the code of the symbol of a single-leaf tree is "0".
CodeTableKeys ==
    root # None =>
        /\ DOMAIN code_table = InputSymbols
        /\ \A c \in DOMAIN code_table :
               /\ Len(code_table[c]) >= 1
               /\ Range(code_table[c]) \subseteq Bits
        /\ Cardinality(InputSymbols) = 1 =>
               \A c \in DOMAIN code_table : code_table[c] = <<"0">>

\* A tree of one leaf built from a text of three equal chars.
CodeTableKeysBuilt ==
    /\ last.op = "build_from_text"
    /\ Len(built.text) = 3
    /\ Cardinality(InputSymbols) = 1
    /\ is_leaf(nodes[root])
    /\ Cardinality(DOMAIN code_table) = 1

====
